---------------------------- MODULE Spec2Model ----------------------------
(***************************************************************************)
(* Model of the drift migration generator (src/src/data_type.rs,           *)
(* src/src/dialect.rs, src/src/migration.rs).                              *)
(*                                                                         *)
(* A Rust String is a sequence of one-character strings, so that format!,  *)
(* join and split are modelled by what they do to the text.  An            *)
(* Option<T> is <<>> (None) or <<v>> (Some(v)).  A call that can panic     *)
(* yields Returned(v) or Panicked.                                        *)
(***************************************************************************)
EXTENDS Integers, Sequences, FiniteSets, TLC

VARIABLES
    table_name,     \* Migration.table_name
    operations,     \* Migration.operations
    dialect,        \* Migration.dialect
    result,         \* what the last Migration::generate_sql call gave its caller
    procs,          \* outcome of the external program each step of that call ran
    last,           \* the last two methods called on the Migration, the latest last
    appended,       \* history: the operations given to add_operation, in call order
    call,           \* a direct call of a Dialect method or of a step's generate_sql
    ret,            \* what that call gave
    by_id_calls     \* the update_column_data_by_id calls that call made

vars == <<table_name, operations, dialect, result, procs, last, appended, call, ret,
          by_id_calls>>

migration_vars == <<table_name, operations, dialect, result, procs, last, appended>>

call_vars == <<call, ret, by_id_calls>>

(***************************************************************************)
(* Bounds of the model.                                                    *)
(***************************************************************************)
MaxOps == 3

MaxConds == 2

MaxStdout == 8

(***************************************************************************)
(* Rust values.                                                            *)
(***************************************************************************)
None == <<>>

Some(v) == <<v>>

\* the outcome of a call: it has not been made, it panicked, or it returned v
NotCalled == [status |-> "none", value |-> <<>>]

Panicked == [status |-> "panicked", value |-> <<>>]

Returned(v) == [status |-> "returned", value |-> v]

NoCall == [fn |-> "none"]

\* [T]::join(sep) on a Vec<String>
RECURSIVE join(_, _)
join(v, sep) ==
    IF Len(v) = 0 THEN <<>>
    ELSE IF Len(v) = 1 THEN v[1]
    ELSE v[1] \o sep \o join(Tail(v), sep)

\* str::split(char): the pieces between the occurrences of ch, empty ones included
RECURSIVE split(_, _)
split(s, ch) ==
    IF \A i \in 1..Len(s) : s[i] # ch THEN <<s>>
    ELSE LET i == CHOOSE k \in 1..Len(s) :
                      s[k] = ch /\ \A j \in 1..(k - 1) : s[j] # ch
         IN  <<SubSeq(s, 1, i - 1)>> \o split(SubSeq(s, i + 1, Len(s)), ch)

\* String::from_utf8_lossy: a byte that is no valid UTF-8 becomes U+FFFD
from_utf8_lossy(bytes) ==
    [i \in 1..Len(bytes) |-> IF bytes[i] = "xFF" THEN "uFFFD" ELSE bytes[i]]

(***************************************************************************)
(* data_type.rs                                                            *)
(***************************************************************************)
DataType == {"Integer", "Text", "Boolean", "Decimal", "Timestamp"}

DataType_fmt(self) ==
    CASE self = "Integer" -> <<"I","N","T","E","G","E","R">>
      [] self = "Text" -> <<"T","E","X","T">>
      [] self = "Boolean" -> <<"B","O","O","L","E","A","N">>
      [] self = "Decimal" -> <<"D","E","C","I","M","A","L">>
      [] self = "Timestamp" -> <<"T","I","M","E","S","T","A","M","P">>

(***************************************************************************)
(* migration.rs: Operator, UpdateValue                                     *)
(***************************************************************************)
Operator == {"Eq", "Ne", "Gt", "Lt", "Gte", "Lte", "Like", "In"}

Operator_as_str(self) ==
    CASE self = "Eq" -> <<"=">>
      [] self = "Ne" -> <<"!","=">>
      [] self = "Gt" -> <<">">>
      [] self = "Lt" -> <<"<">>
      [] self = "Gte" -> <<">","=">>
      [] self = "Lte" -> <<"<","=">>
      [] self = "Like" -> <<"L","I","K","E">>
      [] self = "In" -> <<"I","N">>

Fixed(text) == [tag |-> "Fixed", text |-> text]

Column(text) == [tag |-> "Column", text |-> text]

\* match value { UpdateValue::Fixed(val) => val.clone(), UpdateValue::Column(col) => col.clone() }
value_sql(value) ==
    CASE value.tag = "Fixed" -> value.text
      [] value.tag = "Column" -> value.text

(***************************************************************************)
(* dialect.rs: PostgresDialect                                             *)
(***************************************************************************)
\* "ALTER TABLE {} ADD COLUMN {} {} {};"
PostgresDialect_add_column(table, column, data_type, nullable) ==
    <<"A","L","T","E","R"," ","T","A","B","L","E"," ">> \o table \o <<" ","A","D","D"," ","C","O","L","U","M","N"," ">> \o column \o <<" ">>
        \o DataType_fmt(data_type) \o <<" ">>
        \o (IF nullable THEN <<"N","U","L","L">> ELSE <<"N","O","T"," ","N","U","L","L">>) \o <<";">>

\* "ALTER TABLE {} DROP COLUMN {};"
PostgresDialect_drop_column(table, column) ==
    <<"A","L","T","E","R"," ","T","A","B","L","E"," ">> \o table \o <<" ","D","R","O","P"," ","C","O","L","U","M","N"," ">> \o column \o <<";">>

\* "ALTER TABLE {} RENAME COLUMN {} TO {};"
PostgresDialect_rename_column(table, old_name, new_name) ==
    <<"A","L","T","E","R"," ","T","A","B","L","E"," ">> \o table \o <<" ","R","E","N","A","M","E"," ","C","O","L","U","M","N"," ">> \o old_name \o <<" ","T","O"," ">>
        \o new_name \o <<";">>

\* PostgresDialect::change_column_type with the default pushed before the nullability
PostgresDialect_change_column_type_default_first(table, column, new_type, options) ==
    LET s1 == << <<"A","L","T","E","R"," ","T","A","B","L","E"," ">> \o table \o <<" ","A","L","T","E","R"," ","C","O","L","U","M","N"," ">> \o column
                    \o <<" ","T","Y","P","E"," ">> \o DataType_fmt(new_type) >>
        s2 == IF options.default # None
              THEN Append(s1, <<"A","L","T","E","R"," ","T","A","B","L","E"," ">> \o table \o <<" ","A","L","T","E","R"," ","C","O","L","U","M","N"," ">> \o column
                                \o <<" ","S","E","T"," ","D","E","F","A","U","L","T"," ">> \o options.default[1])
              ELSE s1
        s3 == IF options.nullable # None
              THEN Append(s2, <<"A","L","T","E","R"," ","T","A","B","L","E"," ">> \o table \o <<" ","A","L","T","E","R"," ","C","O","L","U","M","N"," ">> \o column
                                \o <<" ">>
                                \o (IF options.nullable[1] THEN <<"D","R","O","P"," ","N","O","T">> ELSE <<"S","E","T"," ","N","O","T">>)
                                \o <<" ","N","U","L","L">>)
              ELSE s2
        s4 == IF options.unique # None
              THEN IF options.unique[1]
                   THEN Append(s3, <<"C","R","E","A","T","E"," ","U","N","I","Q","U","E"," ","I","N","D","E","X"," ","I","F"," ","N","O","T"," ","E","X","I","S","T","S"," ">> \o table \o <<"_">>
                                     \o column \o <<"_","u","n","i","q","u","e"," ","O","N"," ">> \o table \o <<" ","(">>
                                     \o column \o <<")">>)
                   ELSE Append(s3, <<"D","R","O","P"," ","I","N","D","E","X"," ","I","F"," ","E","X","I","S","T","S"," ">> \o table \o <<"_">> \o column
                                     \o <<"_","u","n","i","q","u","e">>)
              ELSE s3
    IN  join(s4, <<";","\n">>)

\* statements = vec![TYPE]; push per populated option; statements.join(";\n")
PostgresDialect_change_column_type(table, column, new_type, options) ==
    LET s1 == << <<"A","L","T","E","R"," ","T","A","B","L","E"," ">> \o table \o <<" ","A","L","T","E","R"," ","C","O","L","U","M","N"," ">> \o column
                    \o <<" ","T","Y","P","E"," ">> \o DataType_fmt(new_type) >>
        s2 == IF options.nullable # None
              THEN Append(s1, <<"A","L","T","E","R"," ","T","A","B","L","E"," ">> \o table \o <<" ","A","L","T","E","R"," ","C","O","L","U","M","N"," ">> \o column
                                \o <<" ">>
                                \o (IF options.nullable[1] THEN <<"D","R","O","P"," ","N","O","T">> ELSE <<"S","E","T"," ","N","O","T">>)
                                \o <<" ","N","U","L","L">>)
              ELSE s1
        s3 == IF options.default # None
              THEN Append(s2, <<"A","L","T","E","R"," ","T","A","B","L","E"," ">> \o table \o <<" ","A","L","T","E","R"," ","C","O","L","U","M","N"," ">> \o column
                                \o <<" ","S","E","T"," ","D","E","F","A","U","L","T"," ">> \o options.default[1])
              ELSE s2
        s4 == IF options.unique # None
              THEN IF options.unique[1]
                   THEN Append(s3, <<"C","R","E","A","T","E"," ","U","N","I","Q","U","E"," ","I","N","D","E","X"," ","I","F"," ","N","O","T"," ","E","X","I","S","T","S"," ">> \o table \o <<"_">>
                                     \o column \o <<"_","u","n","i","q","u","e"," ","O","N"," ">> \o table \o <<" ","(">>
                                     \o column \o <<")">>)
                   ELSE Append(s3, <<"D","R","O","P"," ","I","N","D","E","X"," ","I","F"," ","E","X","I","S","T","S"," ">> \o table \o <<"_">> \o column
                                     \o <<"_","u","n","i","q","u","e">>)
              ELSE s3
    IN  join(s4, <<";","\n">>)

\* "{} {} {}" of one WhereCondition
condition_sql(cond) ==
    cond.column \o <<" ">> \o Operator_as_str(cond.operator) \o <<" ">> \o value_sql(cond.value)

\* "UPDATE {} SET {} = {}{};" with where_clause "" or " WHERE " + conditions.join(" AND ")
PostgresDialect_update_column_data(table, column, value, conditions) ==
    LET where_clause ==
            IF Len(conditions) = 0 THEN <<>>
            ELSE <<" ","W","H","E","R","E"," ">>
                 \o join([i \in 1..Len(conditions) |-> condition_sql(conditions[i])],
                         <<" ","A","N","D"," ">>)
    IN  <<"U","P","D","A","T","E"," ">> \o table \o <<" ","S","E","T"," ">> \o column \o <<" ","="," ">> \o value_sql(value)
            \o where_clause \o <<";">>

\* "SELECT {}, {} FROM {};"
PostgresDialect_select_column_data(table, id_column, value_column) ==
    <<"S","E","L","E","C","T"," ">> \o id_column \o <<","," ">> \o value_column \o <<" ","F","R","O","M"," ">> \o table \o <<";">>

\* "UPDATE {} SET {} = {} WHERE {} = {};"
PostgresDialect_update_column_data_by_id(table, id_column, update_column, id_value, new_value) ==
    <<"U","P","D","A","T","E"," ">> \o table \o <<" ","S","E","T"," ">> \o update_column \o <<" ","="," ">> \o new_value
        \o <<" ","W","H","E","R","E"," ">> \o id_column \o <<" ","="," ">> \o id_value \o <<";">>

(***************************************************************************)
(* dialect.rs: MySqlDialect                                                *)
(***************************************************************************)
\* "ALTER TABLE {} ADD COLUMN {} {} {};"
MySqlDialect_add_column(table, column, data_type, nullable) ==
    <<"A","L","T","E","R"," ","T","A","B","L","E"," ">> \o table \o <<" ","A","D","D"," ","C","O","L","U","M","N"," ">> \o column \o <<" ">>
        \o DataType_fmt(data_type) \o <<" ">>
        \o (IF nullable THEN <<"N","U","L","L">> ELSE <<"N","O","T"," ","N","U","L","L">>) \o <<";">>

\* "ALTER TABLE {} DROP COLUMN {};"
MySqlDialect_drop_column(table, column) ==
    <<"A","L","T","E","R"," ","T","A","B","L","E"," ">> \o table \o <<" ","D","R","O","P"," ","C","O","L","U","M","N"," ">> \o column \o <<";">>

\* "ALTER TABLE {} CHANGE COLUMN {} {};"
MySqlDialect_rename_column(table, old_name, new_name) ==
    <<"A","L","T","E","R"," ","T","A","B","L","E"," ">> \o table \o <<" ","C","H","A","N","G","E"," ","C","O","L","U","M","N"," ">> \o old_name \o <<" ">>
        \o new_name \o <<";">>

\* definition = type, push_str per populated option; "ALTER TABLE {} MODIFY COLUMN {} {}"
MySqlDialect_change_column_type(table, column, new_type, options) ==
    LET d1 == DataType_fmt(new_type)
        d2 == IF options.nullable # None
              THEN d1 \o (IF options.nullable[1] THEN <<" ","N","U","L","L">> ELSE <<" ","N","O","T"," ","N","U","L","L">>)
              ELSE d1
        d3 == IF options.default # None
              THEN d2 \o <<" ","D","E","F","A","U","L","T"," ">> \o options.default[1]
              ELSE d2
        \* if let Some(true) = options.unique
        d4 == IF options.unique = Some(TRUE) THEN d3 \o <<" ","U","N","I","Q","U","E">> ELSE d3
    IN  <<"A","L","T","E","R"," ","T","A","B","L","E"," ">> \o table \o <<" ","M","O","D","I","F","Y"," ","C","O","L","U","M","N"," ">> \o column \o <<" ">> \o d4

\* MySqlDialect::update_column_data without the conditions.is_empty() test
MySqlDialect_update_column_data_always_where(table, column, value, conditions) ==
    LET where_clause ==
            <<" ","W","H","E","R","E"," ">>
                \o join([i \in 1..Len(conditions) |-> condition_sql(conditions[i])],
                        <<" ","A","N","D"," ">>)
    IN  <<"U","P","D","A","T","E"," ">> \o table \o <<" ","S","E","T"," ">> \o column \o <<" ","="," ">> \o value_sql(value)
            \o where_clause \o <<";">>

\* "UPDATE {} SET {} = {}{};" with where_clause "" or " WHERE " + conditions.join(" AND ")
MySqlDialect_update_column_data(table, column, value, conditions) ==
    LET where_clause ==
            IF Len(conditions) = 0 THEN <<>>
            ELSE <<" ","W","H","E","R","E"," ">>
                 \o join([i \in 1..Len(conditions) |-> condition_sql(conditions[i])],
                         <<" ","A","N","D"," ">>)
    IN  <<"U","P","D","A","T","E"," ">> \o table \o <<" ","S","E","T"," ">> \o column \o <<" ","="," ">> \o value_sql(value)
            \o where_clause \o <<";">>

\* "SELECT {}, {} FROM {};"
MySqlDialect_select_column_data(table, id_column, value_column) ==
    <<"S","E","L","E","C","T"," ">> \o id_column \o <<","," ">> \o value_column \o <<" ","F","R","O","M"," ">> \o table \o <<";">>

\* "UPDATE {} SET {} = {} WHERE {} = {};"
MySqlDialect_update_column_data_by_id(table, id_column, update_column, id_value, new_value) ==
    <<"U","P","D","A","T","E"," ">> \o table \o <<" ","S","E","T"," ">> \o update_column \o <<" ","="," ">> \o new_value
        \o <<" ","W","H","E","R","E"," ">> \o id_column \o <<" ","="," ">> \o id_value \o <<";">>

(***************************************************************************)
(* dialect.rs: trait Dialect, dispatched on the implementing type          *)
(***************************************************************************)
Dialects == {"PostgresDialect", "MySqlDialect"}

add_column(d, table, column, data_type, nullable) ==
    IF d = "PostgresDialect"
    THEN PostgresDialect_add_column(table, column, data_type, nullable)
    ELSE MySqlDialect_add_column(table, column, data_type, nullable)

drop_column(d, table, column) ==
    IF d = "PostgresDialect"
    THEN PostgresDialect_drop_column(table, column)
    ELSE MySqlDialect_drop_column(table, column)

rename_column(d, table, old_name, new_name) ==
    IF d = "PostgresDialect"
    THEN PostgresDialect_rename_column(table, old_name, new_name)
    ELSE MySqlDialect_rename_column(table, old_name, new_name)

change_column_type(d, table, column, new_type, options) ==
    IF d = "PostgresDialect"
    THEN PostgresDialect_change_column_type(table, column, new_type, options)
    ELSE MySqlDialect_change_column_type(table, column, new_type, options)

update_column_data(d, table, column, value, conditions) ==
    IF d = "PostgresDialect"
    THEN PostgresDialect_update_column_data(table, column, value, conditions)
    ELSE MySqlDialect_update_column_data(table, column, value, conditions)

select_column_data(d, table, id_column, value_column) ==
    IF d = "PostgresDialect"
    THEN PostgresDialect_select_column_data(table, id_column, value_column)
    ELSE MySqlDialect_select_column_data(table, id_column, value_column)

update_column_data_by_id(d, table, id_column, update_column, id_value, new_value) ==
    IF d = "PostgresDialect"
    THEN PostgresDialect_update_column_data_by_id(table, id_column, update_column,
                                                  id_value, new_value)
    ELSE MySqlDialect_update_column_data_by_id(table, id_column, update_column,
                                               id_value, new_value)

(***************************************************************************)
(* migration.rs: the MigrationStep implementations                         *)
(***************************************************************************)
AddColumn_generate_sql(self, table, d) ==
    add_column(d, table, self.column.name, self.column.data_type, self.column.nullable)

DropColumn_generate_sql(self, table, d) ==
    drop_column(d, table, self.name)

RenameColumn_generate_sql(self, table, d) ==
    rename_column(d, table, self.old_name, self.new_name)

ChangeColumnType_generate_sql(self, table, d) ==
    change_column_type(d, table, self.column_name, self.new_type, self.options)

UpdateColumnData_generate_sql(self, table, d) ==
    update_column_data(d, table, self.column_name, self.value, self.conditions)

\* What Command::new("python").arg(script).arg(select_sql).output() can give:
\* the program could not be started (Err), or it ran and left an exit status
\* and its standard output (Ok).  NotRun: the step did not get to run it.
NotRun == [spawn |-> "none", status |-> 0, stdout |-> <<>>]

SpawnFailed == [spawn |-> "failed", status |-> 0, stdout |-> <<>>]

Exited(status, stdout) == [spawn |-> "ok", status |-> status, stdout |-> stdout]

\* pairs without the filter(|s| !s.is_empty())
pairs_unfiltered(stdout) == split(from_utf8_lossy(stdout), ";")

\* String::from_utf8_lossy(&output.stdout).split(';').filter(|s| !s.is_empty())
pairs(stdout) ==
    SelectSeq(split(from_utf8_lossy(stdout), ";"), LAMBDA s : s # <<>>)

\* let mut parts = pair.split(':')
parts(pair) == split(pair, ":")

\* the first pair of ps whose second parts.next() is None, Len(ps) + 1 if there is none
first_unwrap_none(ps) ==
    IF \A k \in 1..Len(ps) : Len(parts(ps[k])) >= 2 THEN Len(ps) + 1
    ELSE CHOOSE k \in 1..Len(ps) :
             /\ Len(parts(ps[k])) < 2
             /\ \A j \in 1..(k - 1) : Len(parts(ps[j])) >= 2

\* the arguments of the update_column_data_by_id calls the closure makes: the
\* iterator is consumed in order, so every pair before the first panic is rendered
by_id_arguments(proc) ==
    IF proc.spawn # "ok" THEN <<>>
    ELSE LET ps == pairs(proc.stdout)
         IN  [k \in 1..(first_unwrap_none(ps) - 1) |->
                 [pair |-> ps[k],
                  id |-> parts(ps[k])[1],         \* parts.next().unwrap()
                  value |-> parts(ps[k])[2]]]     \* parts.next().unwrap()

ExternalProcessColumnData_generate_sql(self, table, d, proc) ==
    LET select_sql == select_column_data(d, table, self.id_column, self.column_name)
        ps == pairs(proc.stdout)
        args == by_id_arguments(proc)
        updates == [k \in 1..Len(args) |->
                       update_column_data_by_id(d, table, self.id_column,
                                                self.column_name, args[k].id,
                                                args[k].value)]
    IN  IF proc.spawn # "ok" THEN Panicked        \* .expect("Failed to execute Python script")
        ELSE IF first_unwrap_none(ps) <= Len(ps) THEN Panicked  \* unwrap() on None
        ELSE Returned(join(updates, <<"\n">>))

\* op.generate_sql(table_name, dialect) through the dyn MigrationStep
MigrationStep_generate_sql(op, table, d, proc) ==
    CASE op.kind = "AddColumn" -> Returned(AddColumn_generate_sql(op, table, d))
      [] op.kind = "DropColumn" -> Returned(DropColumn_generate_sql(op, table, d))
      [] op.kind = "RenameColumn" -> Returned(RenameColumn_generate_sql(op, table, d))
      [] op.kind = "ChangeColumnType" -> Returned(ChangeColumnType_generate_sql(op, table, d))
      [] op.kind = "UpdateColumnData" -> Returned(UpdateColumnData_generate_sql(op, table, d))
      [] op.kind = "ExternalProcessColumnData" ->
             ExternalProcessColumnData_generate_sql(op, table, d, proc)

(***************************************************************************)
(* migration.rs: Migration                                                 *)
(***************************************************************************)
\* push as an insert at the front
push_front(ops, operation) == <<operation>> \o ops

\* self.operations.push(Box::new(operation))
push(ops, operation) == Append(ops, operation)

\* self.operations.iter().map(|op| op.generate_sql(..)).collect(): the steps are
\* rendered in order and the first panic unwinds out of the call
Migration_generate_sql(table, ops, d, outs) ==
    LET rendered == [i \in 1..Len(ops) |-> MigrationStep_generate_sql(ops[i], table, d, outs[i])]
    IN  IF \E i \in 1..Len(ops) : rendered[i].status = "panicked" THEN Panicked
        ELSE Returned([i \in 1..Len(ops) |-> rendered[i].value])

\* the external programs that call ran: none after the step that panicked
procs_run(table, ops, d, outs) ==
    LET rendered == [i \in 1..Len(ops) |-> MigrationStep_generate_sql(ops[i], table, d, outs[i])]
    IN  [i \in 1..Len(ops) |->
            IF \E j \in 1..(i - 1) : rendered[j].status = "panicked"
            THEN NotRun ELSE outs[i]]

(***************************************************************************)
(* The inputs.                                                             *)
(***************************************************************************)
Tables == { <<"t">>, <<"u","s">> }

Columns == { <<"c">>, <<"i","d">> }

Defaults == { <<"0">>, <<"'","x","'">> }

Texts == { <<"1">>, <<"'","a","'">> }

Options ==
    [nullable : {None, Some(TRUE), Some(FALSE)},
     default : {None} \cup {Some(x) : x \in Defaults},
     unique : {None, Some(TRUE), Some(FALSE)}]

UpdateValues == {Fixed(x) : x \in Texts} \cup {Column(x) : x \in Columns}

\* the conditions: one column, every operator, a literal or a column reference
WhereConditions ==
    [column : { <<"c">> }, operator : Operator, value : {Fixed(<<"1">>), Column(<<"i","d">>)}]

SeqsUpTo(S, n) == UNION {[1..k -> S] : k \in 0..n}

\* the bytes the external program writes when its output is enumerated
Bytes == {"1", ":", ";"}

\* the steps a Migration is given: each kind, and two of the kinds with options
Steps ==
    { [kind |-> "AddColumn",
       column |-> [name |-> <<"c">>, data_type |-> "Text", nullable |-> FALSE]],
      [kind |-> "DropColumn", name |-> <<"c">>],
      [kind |-> "RenameColumn", old_name |-> <<"c">>, new_name |-> <<"i","d">>],
      [kind |-> "ChangeColumnType", column_name |-> <<"c">>, new_type |-> "Integer",
       options |-> [nullable |-> Some(FALSE), default |-> Some(<<"0">>), unique |-> None]],
      [kind |-> "UpdateColumnData", column_name |-> <<"c">>, value |-> Fixed(<<"1">>),
       conditions |-> << [column |-> <<"i","d">>, operator |-> "Gt", value |-> Fixed(<<"1">>)] >>],
      [kind |-> "ExternalProcessColumnData", column_name |-> <<"c">>, id_column |-> <<"i","d">>,
       python_script |-> <<"s",".","p","y">>] }

IsPure(op) == op.kind # "ExternalProcessColumnData"

\* what the external program of a Migration's step does in the model
ProcOutcomes ==
    { SpawnFailed,
      Exited(0, <<"1", ":", "a", ";", "a", ":", "xFF", ";">>),
      Exited(1, <<"1",":","a">>),
      Exited(0, <<"1","a">>) }

\* what the external programs of the steps of ops can do: one outcome for each
\* external-process step, and no program for a pure step
OutcomesFor(ops) ==
    LET external == {i \in 1..Len(ops) : ~IsPure(ops[i])}
    IN  {[i \in 1..Len(ops) |-> IF i \in external THEN choice[i] ELSE NotRun] :
            choice \in [external -> ProcOutcomes]}

(***************************************************************************)
(* Spec: a Migration, from Migration::new on.  A panic ends the program.   *)
(***************************************************************************)
Init ==
    /\ table_name \in Tables
    /\ dialect \in Dialects
    /\ operations = <<>>
    /\ result = NotCalled
    /\ procs = <<>>
    /\ last = <<"new">>
    /\ appended = <<>>
    /\ call = NoCall
    /\ ret = NotCalled
    /\ by_id_calls = <<>>

add_operation(operation) ==
    /\ result.status # "panicked"
    /\ Len(operations) < MaxOps
    /\ operations' = push(operations, operation)
    /\ last' = <<last[Len(last)], "add_operation">>
    /\ appended' = Append(appended, operation)
    /\ UNCHANGED <<table_name, dialect, result, procs, call_vars>>

\* generate_sql consuming the operations it renders
generate_sql_draining(outs) ==
    /\ result.status # "panicked"
    /\ result' = Migration_generate_sql(table_name, operations, dialect, outs)
    /\ procs' = procs_run(table_name, operations, dialect, outs)
    /\ last' = <<last[Len(last)], "generate_sql">>
    /\ operations' = <<>>
    /\ UNCHANGED <<table_name, dialect, appended, call_vars>>

generate_sql(outs) ==
    /\ result.status # "panicked"
    /\ result' = Migration_generate_sql(table_name, operations, dialect, outs)
    /\ procs' = procs_run(table_name, operations, dialect, outs)
    /\ last' = <<last[Len(last)], "generate_sql">>
    /\ UNCHANGED <<table_name, operations, dialect, appended, call_vars>>

Next ==
    \/ \E operation \in Steps : add_operation(operation)
    \/ \E outs \in OutcomesFor(operations) : generate_sql(outs)

Spec == Init /\ [][Next]_vars

(***************************************************************************)
(* SpecDialect: one Dialect method applied to inputs.                      *)
(***************************************************************************)
InitCall ==
    /\ table_name = <<>>
    /\ dialect = "PostgresDialect"
    /\ operations = <<>>
    /\ result = NotCalled
    /\ procs = <<>>
    /\ last = <<"new">>
    /\ appended = <<>>
    /\ call = NoCall
    /\ ret = NotCalled
    /\ by_id_calls = <<>>

CallAddColumn ==
    /\ call = NoCall
    /\ \E d \in Dialects, t \in Tables, c \in Columns, dt \in DataType, n \in BOOLEAN :
        /\ call' = [fn |-> "add_column", dialect |-> d, table |-> t, column |-> c,
                    data_type |-> dt, nullable |-> n]
        /\ ret' = Returned(add_column(d, t, c, dt, n))
        /\ UNCHANGED <<migration_vars, by_id_calls>>

CallDropColumn ==
    /\ call = NoCall
    /\ \E d \in Dialects, t \in Tables, c \in Columns :
        /\ call' = [fn |-> "drop_column", dialect |-> d, table |-> t, column |-> c]
        /\ ret' = Returned(drop_column(d, t, c))
        /\ UNCHANGED <<migration_vars, by_id_calls>>

CallRenameColumn ==
    /\ call = NoCall
    /\ \E d \in Dialects, t \in Tables, o \in Columns, n \in Columns :
        /\ call' = [fn |-> "rename_column", dialect |-> d, table |-> t, old_name |-> o,
                    new_name |-> n]
        /\ ret' = Returned(rename_column(d, t, o, n))
        /\ UNCHANGED <<migration_vars, by_id_calls>>

CallChangeColumnType ==
    /\ call = NoCall
    /\ \E d \in Dialects, t \in Tables, c \in Columns, dt \in DataType, o \in Options :
        /\ call' = [fn |-> "change_column_type", dialect |-> d, table |-> t, column |-> c,
                    new_type |-> dt, options |-> o]
        /\ ret' = Returned(change_column_type(d, t, c, dt, o))
        /\ UNCHANGED <<migration_vars, by_id_calls>>

CallUpdateColumnData ==
    /\ call = NoCall
    /\ \E d \in Dialects, t \in Tables, c \in Columns, v \in UpdateValues,
       cs \in SeqsUpTo(WhereConditions, MaxConds) :
        /\ call' = [fn |-> "update_column_data", dialect |-> d, table |-> t, column |-> c,
                    value |-> v, conditions |-> cs]
        /\ ret' = Returned(update_column_data(d, t, c, v, cs))
        /\ UNCHANGED <<migration_vars, by_id_calls>>

CallSelectColumnData ==
    /\ call = NoCall
    /\ \E d \in Dialects, t \in Tables, i \in Columns, v \in Columns :
        /\ call' = [fn |-> "select_column_data", dialect |-> d, table |-> t,
                    id_column |-> i, value_column |-> v]
        /\ ret' = Returned(select_column_data(d, t, i, v))
        /\ UNCHANGED <<migration_vars, by_id_calls>>

CallUpdateColumnDataById ==
    /\ call = NoCall
    /\ \E d \in Dialects, t \in Tables, i \in Columns, u \in Columns, iv \in Texts,
       nv \in Texts :
        /\ call' = [fn |-> "update_column_data_by_id", dialect |-> d, table |-> t,
                    id_column |-> i, update_column |-> u, id_value |-> iv,
                    new_value |-> nv]
        /\ ret' = Returned(update_column_data_by_id(d, t, i, u, iv, nv))
        /\ UNCHANGED <<migration_vars, by_id_calls>>

NextDialect ==
    \/ CallAddColumn
    \/ CallDropColumn
    \/ CallRenameColumn
    \/ CallChangeColumnType
    \/ CallUpdateColumnData
    \/ CallSelectColumnData
    \/ CallUpdateColumnDataById

SpecDialect == InitCall /\ [][NextDialect]_vars

(***************************************************************************)
(* SpecExternal: ExternalProcessColumnData::generate_sql applied to what   *)
(* the external program can do.                                            *)
(***************************************************************************)
ExternalSteps ==
    { [kind |-> "ExternalProcessColumnData", column_name |-> <<"c">>, id_column |-> <<"i","d">>,
       python_script |-> <<"s",".","p","y">>] }

\* what the external program of the step does: it cannot be started, or it
\* exits with a status after writing its standard output
Outputs ==
    {SpawnFailed}
        \cup {Exited(status, stdout) : status \in {0, 1}, stdout \in SeqsUpTo(Bytes, MaxStdout)}

CallExternalProcess ==
    /\ call = NoCall
    /\ \E self \in ExternalSteps, d \in Dialects, proc \in Outputs :
        /\ call' = [fn |-> "ExternalProcessColumnData::generate_sql", self |-> self,
                    table |-> <<"t">>, dialect |-> d, proc |-> proc]
        /\ ret' = ExternalProcessColumnData_generate_sql(self, <<"t">>, d, proc)
        /\ by_id_calls' = by_id_arguments(proc)
        /\ UNCHANGED migration_vars

NextExternal == CallExternalProcess

SpecExternal == InitCall /\ [][NextExternal]_vars

(***************************************************************************)
(* Text predicates used to state the properties.                           *)
(***************************************************************************)
StartsWith(s, pre) == Len(pre) <= Len(s) /\ SubSeq(s, 1, Len(pre)) = pre

EndsWith(s, suf) ==
    Len(suf) <= Len(s) /\ SubSeq(s, Len(s) - Len(suf) + 1, Len(s)) = suf

Occurrences(s, sub) ==
    {i \in 1..(Len(s) - Len(sub) + 1) : SubSeq(s, i, i + Len(sub) - 1) = sub}

Contains(s, sub) == Occurrences(s, sub) # {}

\* the pieces of s between the occurrences of the text sep, left to right
RECURSIVE Pieces(_, _)
Pieces(s, sep) ==
    IF ~Contains(s, sep) THEN <<s>>
    ELSE LET i == CHOOSE k \in Occurrences(s, sep) : \A j \in Occurrences(s, sep) : k <= j
         IN  <<SubSeq(s, 1, i - 1)>> \o Pieces(SubSeq(s, i + Len(sep), Len(s)), sep)

\* the texts of ts, each followed by sep except the last
RECURSIVE Joined(_, _, _)
Joined(ts, sep, n) ==
    IF n = 0 THEN <<>>
    ELSE IF n = 1 THEN ts[1]
    ELSE Joined(ts, sep, n - 1) \o sep \o ts[n]

Populated(option) == IF option = None THEN 0 ELSE 1

(***************************************************************************)
(* Properties of the Dialect methods (SpecDialect).                        *)
(***************************************************************************)
IsCall(fn) == call.fn = fn /\ ret.status = "returned"

DialectMethods ==
    {"add_column", "drop_column", "rename_column", "change_column_type",
     "update_column_data", "select_column_data", "update_column_data_by_id"}

\* C4: change_column_type, in both dialects and for every ColumnOptions: a
\* field that is None emits no clause for its aspect, nullable Some(false) emits
\* a NOT NULL form and unique Some(false) emits an explicit uniqueness-removal
\* form, so that the output differs from the one without the option.
C4_PopulatedOptionsAreVisible ==
    IsCall("change_column_type") =>
        LET o == call.options
            out == ret.value
            without_unique ==
                change_column_type(call.dialect, call.table, call.column, call.new_type,
                                   [o EXCEPT !.unique = None])
        IN  /\ o.nullable = None => ~Contains(out, <<"N","U","L","L">>)
            /\ o.default = None => ~Contains(out, <<"D","E","F","A","U","L","T">>)
            /\ o.unique = None => ~Contains(out, <<"U","N","I","Q","U","E">>) /\ ~Contains(out, <<"I","N","D","E","X">>)
            /\ o.nullable = Some(FALSE) =>
                   Contains(out, <<"N","O","T"," ","N","U","L","L">>) /\ ~Contains(out, <<"D","R","O","P"," ","N","O","T"," ","N","U","L","L">>)
            /\ o.unique = Some(FALSE) =>
                   /\ out # without_unique
                   /\ ~Contains(out, <<"C","R","E","A","T","E"," ","U","N","I","Q","U","E">>) /\ ~Contains(out, <<" ","U","N","I","Q","U","E">>)

\* C7: every statement a Dialect method produces ends with ';': the output
\* ends with ';', and so does every statement of an output joined with ";\n".
C7_StatementsEndWithSemicolon ==
    (call.fn \in DialectMethods /\ ret.status = "returned") =>
        EndsWith(ret.value, <<";">>)

\* the rendering "column operator value" of a condition
ConditionText(cond) ==
    cond.column \o <<" ">> \o Operator_as_str(cond.operator) \o <<" ">> \o cond.value.text

\* C8: update_column_data, in both dialects: with no condition the output is
\* 'UPDATE table SET col = value;' and has no WHERE; with n > 0 conditions it
\* has exactly one ' WHERE ', then the n renderings 'column operator value' in
\* the supplied order joined by exactly n - 1 ' AND ', and ends with ';'.
C8_WhereClauseComposition ==
    IsCall("update_column_data") =>
        LET n == Len(call.conditions)
            out == ret.value
            head == <<"U","P","D","A","T","E"," ">> \o call.table \o <<" ","S","E","T"," ">> \o call.column \o <<" ","="," ">>
                        \o call.value.text
            texts == [i \in 1..n |-> ConditionText(call.conditions[i])]
        IN  IF n = 0
            THEN out = head \o <<";">> /\ ~Contains(out, <<"W","H","E","R","E">>)
            ELSE /\ Cardinality(Occurrences(out, <<" ","W","H","E","R","E"," ">>)) = 1
                 /\ Cardinality(Occurrences(out, <<" ","A","N","D"," ">>)) = n - 1
                 /\ out = head \o <<" ","W","H","E","R","E"," ">> \o Joined(texts, <<" ","A","N","D"," ">>, n) \o <<";">>

\* a MySQL call with two different conditions, the first a LIKE
C8_Witness ==
    /\ IsCall("update_column_data")
    /\ call.dialect = "MySqlDialect"
    /\ Len(call.conditions) = 2
    /\ call.conditions[1] # call.conditions[2]
    /\ call.conditions[1].operator = "Like"
    /\ call.value.tag = "Column"

\* C9: PostgreSQL change_column_type emits 1 + (number of Some fields)
\* statements joined by ";\n": the TYPE change, then the nullability statement
\* if nullable is Some, then SET DEFAULT if default is Some, then the unique
\* index CREATE (Some(true)) or DROP (Some(false)) if unique is Some.
C9_PostgresStatementOrder ==
    (IsCall("change_column_type") /\ call.dialect = "PostgresDialect") =>
        LET o == call.options
            st == Pieces(ret.value, <<";","\n">>)
            alter == <<"A","L","T","E","R"," ","T","A","B","L","E"," ">> \o call.table \o <<" ","A","L","T","E","R"," ","C","O","L","U","M","N"," ">> \o call.column
            at_nullable == 2
            at_default == 2 + Populated(o.nullable)
            at_unique == 2 + Populated(o.nullable) + Populated(o.default)
        IN  /\ Len(st) = 1 + Populated(o.nullable) + Populated(o.default)
                           + Populated(o.unique)
            /\ st[1] = alter \o <<" ","T","Y","P","E"," ">> \o DataType_fmt(call.new_type)
            /\ o.nullable # None =>
                   st[at_nullable] = alter \o (IF o.nullable[1] THEN <<" ","D","R","O","P"," ","N","O","T"," ","N","U","L","L">>
                                               ELSE <<" ","S","E","T"," ","N","O","T"," ","N","U","L","L">>)
            /\ o.default # None =>
                   st[at_default] = alter \o <<" ","S","E","T"," ","D","E","F","A","U","L","T"," ">> \o o.default[1]
            /\ o.unique = Some(TRUE) =>
                   StartsWith(st[at_unique], <<"C","R","E","A","T","E"," ","U","N","I","Q","U","E"," ","I","N","D","E","X"," ">>)
            /\ o.unique = Some(FALSE) =>
                   StartsWith(st[at_unique], <<"D","R","O","P"," ","I","N","D","E","X"," ">>)

\* a PostgreSQL call with every option populated: four statements
C9_Witness ==
    /\ IsCall("change_column_type")
    /\ call.dialect = "PostgresDialect"
    /\ call.options.nullable = Some(TRUE)
    /\ call.options.default # None
    /\ call.options.unique = Some(FALSE)
    /\ Len(Pieces(ret.value, <<";","\n">>)) = 4

(***************************************************************************)
(* Properties of ExternalProcessColumnData::generate_sql (SpecExternal).   *)
(***************************************************************************)
IsExternalCall == call.fn = "ExternalProcessColumnData::generate_sql"

\* the position of the first ':' of a segment, 0 if it has none
FirstColon(seg) ==
    IF \A i \in 1..Len(seg) : seg[i] # ":" THEN 0
    ELSE CHOOSE i \in 1..Len(seg) : seg[i] = ":" /\ \A j \in 1..(i - 1) : seg[j] # ":"

\* a segment with no ':', with nothing before its first ':' or nothing after it
Malformed(seg) ==
    \/ FirstColon(seg) = 0
    \/ FirstColon(seg) = 1
    \/ FirstColon(seg) = Len(seg)

\* C1: a non-empty segment of the output that has no ':', an empty id or an
\* empty value never yields an UPDATE statement: when the step returns, no
\* update_column_data_by_id call was made for such a segment.
C1_NoUpdateFromMalformedSegment ==
    (IsExternalCall /\ ret.status = "returned") =>
        \A k \in 1..Len(by_id_calls) : ~Malformed(by_id_calls[k].pair)

\* C5: a segment with a ':' is split at its first ':' only: the id is the text
\* before it and the value is all of the text after it, later ':' included.
C5_SplitAtFirstColonOnly ==
    (IsExternalCall /\ ret.status = "returned") =>
        \A k \in 1..Len(by_id_calls) :
            LET seg == by_id_calls[k].pair
                i == FirstColon(seg)
            IN  i > 0 =>
                    /\ by_id_calls[k].id = SubSeq(seg, 1, i - 1)
                    /\ by_id_calls[k].value = SubSeq(seg, i + 1, Len(seg))

\* the non-empty segments of the output, in order
Segments(stdout) == SelectSeq(Pieces(stdout, <<";">>), LAMBDA seg : seg # <<>>)

\* an 'id:value' pair: one ':', with text on both sides
WellFormedPair(seg) ==
    /\ Cardinality(Occurrences(seg, <<":">>)) = 1
    /\ ~Malformed(seg)

WellFormedOutput(stdout) ==
    \A k \in 1..Len(Segments(stdout)) : WellFormedPair(Segments(stdout)[k])

\* the UPDATE statement of the pair seg
PairStatement(seg) ==
    <<"U","P","D","A","T","E"," ">> \o call.table \o <<" ","S","E","T"," ">> \o call.self.column_name \o <<" ","="," ">>
        \o SubSeq(seg, FirstColon(seg) + 1, Len(seg))
        \o <<" ","W","H","E","R","E"," ">> \o call.self.id_column \o <<" ","="," ">>
        \o SubSeq(seg, 1, FirstColon(seg) - 1) \o <<";">>

\* C6: for an output made only of well-formed 'id:value' pairs separated by
\* ';', the step returns one UPDATE statement per non-empty segment, joined
\* by newlines, in the order of the output: empty segments give nothing, and
\* a repeated id gives repeated statements.
C6_OneUpdatePerPairInOrder ==
    (IsExternalCall /\ call.proc.spawn = "ok" /\ WellFormedOutput(call.proc.stdout)) =>
        LET segs == Segments(call.proc.stdout)
            statements == [k \in 1..Len(segs) |-> PairStatement(segs[k])]
        IN  /\ ret.status = "returned"
            /\ ret.value = Joined(statements, <<"\n">>, Len(segs))
            /\ Len(by_id_calls) = Len(segs)

\* two pairs with the same id around an empty segment: two statements
C6_Witness ==
    /\ IsExternalCall
    /\ call.proc.spawn = "ok"
    /\ call.proc.status = 0
    /\ WellFormedOutput(call.proc.stdout)
    /\ Contains(call.proc.stdout, <<";",";">>)
    /\ Len(by_id_calls) = 2
    /\ by_id_calls[1].id = by_id_calls[2].id
    /\ Len(Pieces(ret.value, <<"\n">>)) = 2

(***************************************************************************)
(* Properties of Migration (Spec).                                         *)
(***************************************************************************)
Generated == last[Len(last)] = "generate_sql"

IsPrefix(s, t) == Len(s) <= Len(t) /\ SubSeq(t, 1, Len(s)) = s

AllPure(ops) == \A i \in 1..Len(ops) : IsPure(ops[i])

\* the external program of step i could not be started or exited non-zero
InvocationFailed(i) ==
    \/ procs[i].spawn = "failed"
    \/ procs[i].spawn = "ok" /\ procs[i].status # 0

\* C2: if the external program of a step cannot be started or exits with a
\* non-zero status, Migration::generate_sql returns no statement list.
C2_FailedInvocationFailsGeneration ==
    (Generated /\ \E i \in 1..Len(procs) : InvocationFailed(i)) =>
        result.status = "panicked"

\* C3: after any sequence of add_operation calls, the list generate_sql
\* returns has one entry per appended operation, and its i-th entry is the
\* rendering of the i-th appended operation with the Migration's table name
\* and dialect.
C3_OutputFollowsAppendOrder ==
    (Generated /\ result.status = "returned") =>
        /\ Len(result.value) = Len(appended)
        /\ \A i \in 1..Len(appended) :
               Returned(result.value[i])
                   = MigrationStep_generate_sql(appended[i], table_name, dialect, procs[i])

\* three steps of three kinds, an external one between two pure ones
C3_Witness ==
    /\ Generated
    /\ result.status = "returned"
    /\ Len(appended) = 3
    /\ appended[1].kind = "UpdateColumnData"
    /\ appended[2].kind = "ExternalProcessColumnData"
    /\ appended[3].kind = "AddColumn"
    /\ Len(result.value) = 3
    /\ result.value[2] # <<>>

\* C10: add_operation leaves table_name, the dialect and the operations
\* appended before unchanged, and generate_sql leaves the Migration unchanged;
\* so, for a Migration of pure steps, the list generate_sql returns starts with
\* the list it returned before more appends, and two consecutive calls return
\* the same list.
C10_AppendOnlyAndReadOnly ==
    [][ /\ table_name' = table_name
        /\ dialect' = dialect
        /\ IsPrefix(operations, operations')
        /\ last'[Len(last')] = "add_operation" => Len(operations') = Len(operations) + 1
        /\ last'[Len(last')] = "generate_sql" => operations' = operations
        /\ (/\ last'[Len(last')] = "generate_sql"
            /\ result.status = "returned"
            /\ result'.status = "returned"
            /\ AllPure(operations'))
               => /\ IsPrefix(result.value, result'.value)
                  /\ Generated => result'.value = result.value
      ]_vars

\* generate_sql called twice in a row on a Migration of three pure steps
C10_Witness ==
    /\ last = <<"generate_sql", "generate_sql">>
    /\ Len(operations) = 3
    /\ AllPure(operations)
    /\ result.status = "returned"
    /\ Len(result.value) = 3

=============================================================================
